---- MODULE Spec2Model ----
(***************************************************************************)
(* Verification model of pit_timer_backend: the per-connection reader and  *)
(* writer loops of handle_connection and the tokio broadcast channel that  *)
(* fans computed results out to every connected client.                    *)
(***************************************************************************)
EXTENDS Integers, Sequences, FiniteSets, TLC

\* ---------------------------------------------------------------- bounds
\* Number of connections the listener accepts in a run.
MaxConns == 2
\* Capacity of the broadcast channel.  main.rs:34 creates it with 128 slots;
\* the model scales the ring down so that overflow is reachable, and every
\* formula speaks of ChannelCapacity, never of a literal number.
ChannelCapacity == 2
\* Total number of results broadcast in a run.
MaxSend == 3
\* Number of inbound messages each reader drops in a run.
MaxDropped == 1
\* Number of times the configuration file changes while the server runs.
MaxCfgChanges == 1

\* ------------------------------------------------------------ data model
Conns == 1..MaxConns

\* Contents of tracks/monaco.json as TimerConfig::load sees them: one of two
\* loadable TimerConfig values, or a file that is missing / not valid JSON /
\* lacks a field, on which load() panics.
NoConfig == "unloadable"
Configs == {"monaco_a", "monaco_b"}

\* What read.next() can yield that is not a parseable TelemetryPacket:
\* a transport error, a non-text frame, a text frame that fails to parse.
InvalidKinds == {"error", "non_text", "unparseable"}

VARIABLES
    cfgFile,     \* current contents of the external configuration file
    cfgChanges,  \* how often the configuration file has changed since startup
    pc,          \* position of handle_connection for each connection
    ws_stream,   \* what accept_async returned for each connection
    cfg,         \* the TimerConfig each connection loaded (line 77)
    write_task,  \* position of each connection's spawned writer task
    out,         \* result a writer has received and is sending (<<>> if none)
    next,        \* read cursor of each connection's broadcast::Receiver
    subPos,      \* value of the cursor when the receiver was subscribed
    rxAlive,     \* the connection's Receiver has not been dropped
    chan,        \* results retained by the broadcast channel, oldest first
    sent,        \* every result ever passed to tx.send, in send order
    delivered,   \* results each writer handed to its websocket sink
    dropped,     \* inbound messages each reader ignored
    pkt,         \* the TelemetryPacket handed to time_to_call
    timer_cfg,   \* the TimerConfig handed to time_to_call
    result,      \* what time_to_call returned for them (None before the call)
    window_size, \* SpeedProfileCalculator.window_size
    lookahead_m, \* SpeedProfileCalculator.lookahead_m
    window,      \* SpeedProfileCalculator.window, front first
    added,       \* every sample added since construction or the last reset
    returned,    \* what the last call on the calculator returned
    call,        \* the last call made on the calculator, with its arguments
    calcs        \* the calculators that threads own side by side, by owner

\* State of the connections, of one evaluation of time_to_call, and of one
\* SpeedProfileCalculator.
serverVars == <<cfgFile, cfgChanges, pc, ws_stream, cfg, write_task, out,
                next, subPos, rxAlive, chan, sent, delivered, dropped>>
estVars == <<pkt, timer_cfg, result>>
accVars == <<window_size, lookahead_m, window, added, returned, call, calcs>>

vars == <<serverVars, estVars, accVars>>

\* Option<T>: None is the empty sequence and Some(x) the sequence <<x>>.
None == <<>>
Some(x) == <<x>>

\* Connection states of the engine's state machine.
Connecting(c) == pc[c] = "handshake"
Active(c) == pc[c] = "active"
Closed(c) == pc[c] \in {"panicked", "returned"}

\* The writer task is inside its `while let Ok(out) = rx.recv().await` loop.
WriterRunning(c) == write_task[c] \in {"recv", "send"}

\* Position the next tx.send will write (tokio's `tail`).
TailPos == Len(sent)

\* Position of the oldest result the channel still retains.
OldestPos == TailPos - Len(chan)

\* The receiver's cursor points at a slot that has been overwritten.
Lagging(c) == next[c] < OldestPos

\* Results the channel retains on behalf of receiver c.
Retained(c) == Cardinality({i \in 1..Len(chan) : chan[i].pos >= next[c]})

\* Variant of BroadcastSend that keeps every value (an unbounded queue).
BroadcastSend_NoDrop(ch, e) == Append(ch, e)
\* tx.send on a channel with at least one receiver (main keeps _rx alive for
\* the whole accept loop): store the value, overwriting the oldest slot when
\* the ring is full.  Never waits for a receiver.
BroadcastSend(ch, e) ==
    IF Len(ch) < ChannelCapacity THEN Append(ch, e) ELSE Append(Tail(ch), e)

\* tx.subscribe(): the new receiver sees only values sent from now on.
SubscribePos == Len(sent)

\* Variants of AdvanceCursor: the cursor stays put; it jumps a slot.
AdvanceCursor_Stuck(n) == n
AdvanceCursor_Skip(n) == n + 2
\* A successful rx.recv() moves the cursor one slot forward.
AdvanceCursor(n) == n + 1

\* Variant of AbortRequested: the reader's end never aborts the writer.
AbortRequested_Never(c) == FALSE
\* write_task.abort() has been called: the reader loop has ended.
AbortRequested(c) == pc[c] = "returned" /\ ws_stream[c] = "ok"


\* ------------------------------------------------- floating-point numbers
\* time_to_call computes in f64.  A number is modelled as a binary
\* floating-point value <<m, e>> standing for m * 2^e, with a significand of
\* MantissaBits bits (f64 has 53) and an unbounded exponent; zero is <<0, 0>>
\* and any other value has 2^(MantissaBits-1) <= |m| < 2^MantissaBits, so
\* equal numbers are equal tuples.  Every operation returns the exact result
\* rounded to the nearest representable value, ties to even, as IEEE 754
\* arithmetic does.  Infinities and NaN are not modelled: no operation below
\* divides by zero.
MantissaBits == 10

RECURSIVE Pow2(_)
Pow2(k) == IF k = 0 THEN 1 ELSE 2 * Pow2(k - 1)

RECURSIVE BitLen(_)
BitLen(n) == IF n = 0 THEN 0 ELSE 1 + BitLen(n \div 2)

Abs(n) == IF n < 0 THEN -n ELSE n
Sgn(n) == IF n < 0 THEN -1 ELSE IF n > 0 THEN 1 ELSE 0

Zero == <<0, 0>>

\* The representable number nearest to the exact value n * 2^e.
Round(n, e) ==
    IF n = 0 THEN Zero
    ELSE LET a == Abs(n)
             k == BitLen(a) - MantissaBits
         IN  IF k <= 0 THEN <<n * Pow2(-k), e + k>>
             ELSE LET q == a \div Pow2(k)
                      r == a % Pow2(k)
                      half == Pow2(k - 1)
                      q1 == IF r > half \/ (r = half /\ q % 2 = 1)
                            THEN q + 1 ELSE q
                  IN  IF q1 = Pow2(MantissaBits)
                      THEN <<Sgn(n) * Pow2(MantissaBits - 1), e + k + 1>>
                      ELSE <<Sgn(n) * q1, e + k>>

FNeg(x) == <<-x[1], x[2]>>

\* x + y.  When the exponents are further apart than the significand is
\* wide, the smaller operand is below a quarter of the larger one's last
\* place, and the sum rounds to the larger operand.
FAdd(x, y) ==
    IF x[1] = 0 THEN y
    ELSE IF y[1] = 0 THEN x
    ELSE IF x[2] - y[2] > MantissaBits + 2 THEN x
    ELSE IF y[2] - x[2] > MantissaBits + 2 THEN y
    ELSE LET e == IF x[2] < y[2] THEN x[2] ELSE y[2]
         IN  Round(x[1] * Pow2(x[2] - e) + y[1] * Pow2(y[2] - e), e)

FSub(x, y) == FAdd(x, FNeg(y))

FMul(x, y) == Round(x[1] * y[1], x[2] + y[2])

\* x / y for y # 0: the quotient to MantissaBits + 2 bits, with one more
\* bit recording whether the division left a remainder.
FDiv(x, y) ==
    IF x[1] = 0 THEN Zero
    ELSE LET s == MantissaBits + 2
             n == Abs(x[1]) * Pow2(s)
             q == n \div Abs(y[1])
             r == n % Abs(y[1])
         IN  Round(Sgn(x[1]) * Sgn(y[1]) * (2 * q + (IF r = 0 THEN 0 ELSE 1)),
                   x[2] - y[2] - s - 1)

\* Comparisons: the sign of the difference, which rounding never changes.
FLt(x, y) == FSub(x, y)[1] < 0
FLe(x, y) == FSub(x, y)[1] <= 0

\* f64::max(self, other).
FMax(x, y) == IF FLt(x, y) THEN y ELSE x

\* The f64 a decimal literal or a parsed JSON number n / den denotes.
F(n) == Round(n, 0)
Dec(n, den) == FDiv(F(n), F(den))


\* ------------------------------------------------------- time_to_call
\* Literals of model.rs.
KphPerMps_One == F(1)
KphPerMps == Dec(36, 10)      \* 3.6, line 32
MinSpeed_One == F(1)
MinSpeed == Dec(1, 10)        \* 0.1, line 32
eps_Large == F(100)
eps_Hundredth == Dec(1, 100)
eps == Dec(1, 10)             \* 0.1_f64, line 110
Half_Whole == F(1)
Half == Dec(1, 2)             \* 0.5, line 120
RedBelow == F(2)              \* 2.0, line 50
AmberBelow == F(5)            \* 5.0, line 52

\* A point (x, v) of pts.
X(p) == p[1]
V(p) == p[2]

\* pts.sort_by(|a, b| a.0.partial_cmp(&b.0)): a stable sort, so points with
\* equal x keep their order.
RECURSIVE InsertByX(_, _)
InsertByX(s, p) ==
    IF s = <<>> THEN <<p>>
    ELSE IF FLt(X(p), X(Head(s))) THEN <<p>> \o s
    ELSE <<Head(s)>> \o InsertByX(Tail(s), p)

RECURSIVE SortByX(_)
SortByX(s) ==
    IF s = <<>> THEN <<>>
    ELSE InsertByX(SortByX(SubSeq(s, 1, Len(s) - 1)), s[Len(s)])

\* pts.dedup_by(|a, b| a.0 == b.0): a point is removed when its x equals
\* that of the point retained before it, so the first of a run stays.
RECURSIVE DedupByX(_)
DedupByX(s) ==
    IF Len(s) < 2 THEN s
    ELSE LET r == DedupByX(SubSeq(s, 1, Len(s) - 1))
         IN  IF X(s[Len(s)]) = X(r[Len(r)]) THEN r ELSE Append(r, s[Len(s)])

\* Lines 92-97: the point put in front of pts, if any.
StartGuard_None(pts, start_x, fallback_v_mps) == <<>>
StartGuard(pts, start_x, fallback_v_mps) ==
    IF FLt(start_x, X(pts[1])) THEN <<<<start_x, fallback_v_mps>>>>
    ELSE IF X(pts[1]) # start_x THEN <<<<start_x, V(pts[1])>>>>
    ELSE <<>>

\* Lines 98-103: the point pushed at the end of pts, if any.
EndGuard(pts, end_x, fallback_v_mps) ==
    IF FLt(X(pts[Len(pts)]), end_x) THEN <<<<end_x, fallback_v_mps>>>>
    ELSE IF X(pts[Len(pts)]) # end_x THEN <<<<end_x, V(pts[Len(pts)])>>>>
    ELSE <<>>

\* Lines 116-120: one trapezoid of 1/v between two consecutive points.
Trapezoid(p0, p1) ==
    LET v0 == FMax(V(p0), eps)
        v1 == FMax(V(p1), eps)
        inv0 == FDiv(F(1), v0)
        inv1 == FDiv(F(1), v1)
    IN  FMul(FMul(FSub(X(p1), X(p0)), Half), FAdd(inv0, inv1))

\* Lines 111-121: the loop over pts.windows(2), from window i on.
RECURSIVE SumWindows(_, _, _)
SumWindows(pts, i, area) ==
    IF i >= Len(pts) THEN area
    ELSE SumWindows(pts, i + 1,
                    IF FLe(X(pts[i + 1]), X(pts[i])) THEN area
                    ELSE FAdd(area, Trapezoid(pts[i], pts[i + 1])))

\* Lines 75-84: the samples inside [start_x, end_x], as points, in the order
\* of the profile.
InRangePts_All(samples, start_x, end_x) ==
    [i \in 1..Len(samples) |-> <<samples[i].x_m, samples[i].v_mps>>]
InRangePts(samples, start_x, end_x) ==
    LET InRange(sm) == FLe(start_x, sm.x_m) /\ FLe(sm.x_m, end_x)
        kept == SelectSeq(samples, InRange)
    IN  [i \in 1..Len(kept) |-> <<kept[i].x_m, kept[i].v_mps>>]

\* Lines 92-107: pts with its guards, sorted by x, one point kept per x.
IntegratedPts(pts, start_x, end_x, fallback_v_mps) ==
    DedupByX(SortByX(StartGuard(pts, start_x, fallback_v_mps)
                     \o pts
                     \o EndGuard(pts, end_x, fallback_v_mps)))

\* integrate_time_over_profile: profile is an Option of a sequence of
\* SpeedSample records; the result is an Option<f64>.
integrate_time_over_profile(start_x, end_x, profile, fallback_v_mps) ==
    IF profile = None THEN None
    ELSE IF FLe(end_x, start_x) THEN Some(Zero)
    ELSE LET pts == InRangePts(profile[1], start_x, end_x)
         IN  IF pts = <<>> THEN None
             ELSE Some(SumWindows(
                      IntegratedPts(pts, start_x, end_x, fallback_v_mps),
                      1, Zero))

\* Line 28: distance left to the call point, never negative.
d_rem_Signed(start_x, end_x) == FSub(end_x, start_x)
d_rem(start_x, end_x) == FMax(FSub(end_x, start_x), Zero)

\* Line 32: instantaneous speed in m/s, clamped from below.
v_inst_mps(speed_kph) == FMax(FDiv(speed_kph, KphPerMps), MinSpeed)

\* Line 37.
t_safe_Adds(t_call, buffer_s) == FAdd(t_call, buffer_s)
t_safe(t_call, buffer_s) == FSub(t_call, buffer_s)

\* Lines 48-56.
status_UpperInclusive(ts) ==
    IF FLe(ts, Zero) THEN "LOCKED_OUT"
    ELSE IF FLe(ts, RedBelow) THEN "RED"
    ELSE IF FLe(ts, AmberBelow) THEN "AMBER"
    ELSE "GREEN"
status(ts) ==
    IF FLt(ts, Zero) THEN "LOCKED_OUT"
    ELSE IF FLt(ts, RedBelow) THEN "RED"
    ELSE IF FLt(ts, AmberBelow) THEN "AMBER"
    ELSE "GREEN"

\* Line 25: where the pit call must be made.
call_at_m(c) == FSub(c.pit_entry_m, c.call_offset_m)

\* time_to_call(d, cfg) -> (t_call, t_safe, status).
time_to_call(d, c) ==
    LET start_x == d.lap_distance_m
        end_x == call_at_m(c)
        v == v_inst_mps(d.speed_kph)
        integrated == integrate_time_over_profile(start_x, end_x,
                                                  d.speed_profile, v)
        t_call == IF integrated = None
                  THEN FDiv(d_rem(start_x, end_x), v)
                  ELSE integrated[1]
        ts == t_safe(t_call, c.buffer_s)
    IN  [t_call |-> t_call, t_safe |-> ts, status |-> status(ts)]

\* ---------------------------------------------- SpeedProfileCalculator
\* speed_profile_calculator.rs:74.
BUFFER_M_None == Zero
BUFFER_M == F(50)

\* VecDeque::pop_front: removes the front entry, if there is one.
pop_front_Newest(w) == IF w = <<>> THEN w ELSE SubSeq(w, 1, Len(w) - 1)
pop_front(w) == IF w = <<>> THEN w ELSE Tail(w)

\* add_sample: the window after the call.
add_sample_NoEvict(w, ws, lap_distance_m, speed_kph) ==
    Append(w, [x_m |-> lap_distance_m, v_mps |-> FDiv(speed_kph, KphPerMps)])
add_sample(w, ws, lap_distance_m, speed_kph) ==
    LET speed_mps == FDiv(speed_kph, KphPerMps)
        sample == [x_m |-> lap_distance_m, v_mps |-> speed_mps]
    IN  Append(IF Len(w) >= ws THEN pop_front(w) ELSE w, sample)

\* profile.sort_by(|a, b| a.x_m.partial_cmp(&b.x_m).unwrap()), a stable sort.
RECURSIVE InsertByXm(_, _)
InsertByXm(s, p) ==
    IF s = <<>> THEN <<p>>
    ELSE IF FLt(p.x_m, Head(s).x_m) THEN <<p>> \o s
    ELSE <<Head(s)>> \o InsertByXm(Tail(s), p)

RECURSIVE SortByXm(_)
SortByXm(s) ==
    IF s = <<>> THEN <<>>
    ELSE InsertByXm(SortByXm(SubSeq(s, 1, Len(s) - 1)), s[Len(s)])

\* Lines 75-82: the window entries inside the guard-banded range.
FilterWindow(w, current_distance_m, target_distance_m) ==
    LET min_x == FSub(current_distance_m, BUFFER_M)
        max_x == FAdd(target_distance_m, BUFFER_M)
        InBand(sample) == FLe(min_x, sample.x_m) /\ FLe(sample.x_m, max_x)
    IN  SelectSeq(w, InBand)

\* get_profile.
get_profile_AnyInBand(w, current_distance_m, target_distance_m) ==
    LET profile == FilterWindow(w, current_distance_m, target_distance_m)
    IN  IF Len(profile) < 1 THEN None ELSE Some(SortByXm(profile))
get_profile(w, current_distance_m, target_distance_m) ==
    IF Len(w) < 2 THEN None
    ELSE LET profile == FilterWindow(w, current_distance_m, target_distance_m)
         IN  IF Len(profile) < 2 THEN None ELSE Some(SortByXm(profile))

\* get_lookahead_profile.
get_lookahead_profile_NoLookahead(w, la, current_distance_m) ==
    IF Len(w) < 2 THEN None
    ELSE get_profile(w, current_distance_m, current_distance_m)
get_lookahead_profile(w, la, current_distance_m) ==
    IF Len(w) < 2 THEN None
    ELSE get_profile(w, current_distance_m, FAdd(current_distance_m, la))

\* reset: self.window.clear().
reset_KeepsNewest(w) == IF w = <<>> THEN w ELSE <<w[Len(w)]>>
reset(w) == <<>>

\* window_len.
window_len(w) == Len(w)

\* ----------------------------------------------------- the reader's step
\* The TimerConfig that TimerConfig::load reads from a loadable file.
LoadedConfig(name) ==
    [pit_entry_m |-> F(1000), call_offset_m |-> F(50),
     buffer_s |-> IF name = "monaco_a" THEN F(3) ELSE F(0)]

\* The packets peer c may send as the message that becomes result number n
\* of the run: before or past the call point, with or without a profile.
PeerPackets(c, n) ==
    {[lap_distance_m |-> IF (c + n) % 2 = 0 THEN F(800) ELSE F(960),
      speed_kph |-> IF c % 2 = 0 THEN F(180) ELSE F(236),
      speed_profile |->
          IF n % 2 = 0 THEN None
          ELSE Some(<<[x_m |-> F(900), v_mps |-> F(50)]>>)]}

\* time_to_call on every packet a peer sends, under every loadable
\* configuration: the estimator is a pure function, so its results are worked
\* out once and looked up by the readers.
PeerEstimates ==
    [d \in UNION {PeerPackets(c, n) : c \in Conns, n \in 0..(MaxSend - 1)},
     name \in Configs |-> time_to_call(d, LoadedConfig(name))]

\* The TimerOut a reader builds from a parsed packet d and the estimator's
\* output r for it: the three values of r and the packet's distance and
\* speed.  src and cfg record which connection built it and
\* which configuration file contents that connection had loaded.
TimerOut_Unechoed(c, d, r) ==
    [src |-> c, cfg |-> cfg[c],
     t_call |-> r.t_call, t_safe |-> r.t_safe, status |-> r.status,
     lap_distance_m |-> Zero, speed_kph |-> Zero]
TimerOut(c, d, r) ==
    [src |-> c, cfg |-> cfg[c],
     t_call |-> r.t_call, t_safe |-> r.t_safe, status |-> r.status,
     lap_distance_m |-> d.lap_distance_m, speed_kph |-> d.speed_kph]

\* No packet is being evaluated.
EstimatorIdle ==
    /\ pkt = None
    /\ timer_cfg = None
    /\ result = None

\* No calculator has been constructed.
AccumulatorIdle ==
    /\ window_size = 0
    /\ lookahead_m = Zero
    /\ window = <<>>
    /\ added = <<>>
    /\ returned = None
    /\ call = <<"none">>
    /\ calcs = <<>>


ServerInit ==
    /\ cfgFile \in {NoConfig, "monaco_a"}
    /\ cfgChanges = 0
    /\ pc = [c \in Conns |-> "idle"]
    /\ ws_stream = [c \in Conns |-> "none"]
    /\ cfg = [c \in Conns |-> NoConfig]
    /\ write_task = [c \in Conns |-> "none"]
    /\ out = [c \in Conns |-> <<>>]
    /\ next = [c \in Conns |-> 0]
    /\ subPos = [c \in Conns |-> 0]
    /\ rxAlive = [c \in Conns |-> FALSE]
    /\ chan = <<>>
    /\ sent = <<>>
    /\ delivered = [c \in Conns |-> <<>>]
    /\ dropped = [c \in Conns |-> 0]

Init ==
    /\ ServerInit
    /\ EstimatorIdle
    /\ AccumulatorIdle

\* The configuration file is edited, removed or created while the server runs.
ConfigChange(v) ==
    /\ v # cfgFile
    /\ cfgChanges < MaxCfgChanges
    /\ cfgFile' = v
    /\ cfgChanges' = cfgChanges + 1
    /\ UNCHANGED <<pc, ws_stream, cfg, write_task, out, next, subPos,
                   rxAlive, chan, sent, delivered, dropped>>
    /\ UNCHANGED <<estVars, accVars>>

\* main's accept loop, Ok branch: subscribe a receiver and spawn
\* handle_connection.  (The Err branch sleeps and changes no state.)
\* Connections are numbered in the order they are accepted.
Accept(c) ==
    /\ pc[c] = "idle"
    /\ \A d \in Conns : d < c => pc[d] # "idle"
    /\ pc' = [pc EXCEPT ![c] = "handshake"]
    /\ next' = [next EXCEPT ![c] = SubscribePos]
    /\ subPos' = [subPos EXCEPT ![c] = TailPos]
    /\ rxAlive' = [rxAlive EXCEPT ![c] = TRUE]
    /\ UNCHANGED <<cfgFile, cfgChanges, ws_stream, cfg, write_task, out,
                   chan, sent, delivered, dropped>>
    /\ UNCHANGED <<estVars, accVars>>

\* Variant of HandshakeFail: the Err arm does not return, and the connection
\* goes on as after a successful handshake.
HandshakeFail_FallsThrough(c) ==
    /\ pc[c] = "handshake"
    /\ cfgFile # NoConfig
    /\ ws_stream' = [ws_stream EXCEPT ![c] = "failed"]
    /\ pc' = [pc EXCEPT ![c] = "active"]
    /\ cfg' = [cfg EXCEPT ![c] = cfgFile]
    /\ write_task' = [write_task EXCEPT ![c] = "recv"]
    /\ UNCHANGED <<cfgFile, cfgChanges, out, next, subPos, rxAlive, chan,
                   sent, delivered, dropped>>
    /\ UNCHANGED <<estVars, accVars>>
\* accept_async returned Err (HandshakeIncomplete or any other error):
\* handle_connection returns at once, dropping rx.
HandshakeFail(c) ==
    /\ pc[c] = "handshake"
    /\ ws_stream' = [ws_stream EXCEPT ![c] = "failed"]
    /\ pc' = [pc EXCEPT ![c] = "returned"]
    /\ rxAlive' = [rxAlive EXCEPT ![c] = FALSE]
    /\ UNCHANGED <<cfgFile, cfgChanges, cfg, write_task, out, next, subPos,
                   chan, sent, delivered, dropped>>
    /\ UNCHANGED <<estVars, accVars>>

\* accept_async returned Ok: split the stream, load the configuration
\* (TimerConfig::load panics when the file cannot be read or parsed, which
\* unwinds this connection's task only), spawn the writer task and enter
\* the reader loop.  No await separates these statements.
HandshakeOk(c) ==
    /\ pc[c] = "handshake"
    /\ ws_stream' = [ws_stream EXCEPT ![c] = "ok"]
    /\ IF cfgFile = NoConfig
       THEN /\ pc' = [pc EXCEPT ![c] = "panicked"]
            /\ rxAlive' = [rxAlive EXCEPT ![c] = FALSE]
            /\ UNCHANGED <<cfg, write_task>>
       ELSE /\ pc' = [pc EXCEPT ![c] = "active"]
            /\ cfg' = [cfg EXCEPT ![c] = cfgFile]
            /\ write_task' = [write_task EXCEPT ![c] = "recv"]
            /\ UNCHANGED rxAlive
    /\ UNCHANGED <<cfgFile, cfgChanges, out, next, subPos, chan, sent,
                   delivered, dropped>>
    /\ UNCHANGED <<estVars, accVars>>

\* Reader loop, a text frame that parses as a TelemetryPacket: compute the
\* result with this connection's cfg and tx.send it.
ReaderPacket(c) ==
    /\ pc[c] = "active"
    /\ Len(sent) < MaxSend
    /\ \E d \in PeerPackets(c, Len(sent)) :
         \E r \in {PeerEstimates[d, cfg[c]]} :
           /\ pkt' = Some(d)
           /\ timer_cfg' = Some(LoadedConfig(cfg[c]))
           /\ result' = Some(r)
           /\ sent' = Append(sent, TimerOut(c, d, r))
           /\ chan' = BroadcastSend(chan, [pos |-> Len(sent),
                                          val |-> TimerOut(c, d, r)])
    /\ UNCHANGED <<cfgFile, cfgChanges, pc, ws_stream, cfg, write_task, out,
                   next, subPos, rxAlive, delivered, dropped>>
    /\ UNCHANGED accVars

\* Variant of ReaderDrop: a message that is not a packet ends the reader loop.
ReaderDrop_Closes(c, k) ==
    /\ pc[c] = "active"
    /\ dropped[c] < MaxDropped
    /\ dropped' = [dropped EXCEPT ![c] = @ + 1]
    /\ pc' = [pc EXCEPT ![c] = "returned"]
    /\ UNCHANGED <<cfgFile, cfgChanges, ws_stream, cfg, write_task, out,
                   next, subPos, rxAlive, chan, sent, delivered>>
    /\ UNCHANGED <<estVars, accVars>>
\* Reader loop, any other message (k says which of the nested `if`s fails):
\* nothing is done and the loop goes on to the next read.
ReaderDrop(c, k) ==
    /\ pc[c] = "active"
    /\ dropped[c] < MaxDropped
    /\ dropped' = [dropped EXCEPT ![c] = @ + 1]
    /\ UNCHANGED <<cfgFile, cfgChanges, pc, ws_stream, cfg, write_task, out,
                   next, subPos, rxAlive, chan, sent, delivered>>
    /\ UNCHANGED <<estVars, accVars>>

\* read.next() yields None: the loop ends, write_task.abort() is called and
\* handle_connection returns.
ReaderEnd(c) ==
    /\ pc[c] = "active"
    /\ pc' = [pc EXCEPT ![c] = "returned"]
    /\ UNCHANGED <<cfgFile, cfgChanges, ws_stream, cfg, write_task, out,
                   next, subPos, rxAlive, chan, sent, delivered, dropped>>
    /\ UNCHANGED <<estVars, accVars>>

\* Writer task, rx.recv() completes.  Ok(value): go on to send it.
\* Err(Lagged): the `while let Ok(..)` pattern fails, the loop and the task
\* end and rx is dropped.
WriterRecv(c) ==
    /\ write_task[c] = "recv"
    /\ ~AbortRequested(c)
    /\ next[c] < TailPos
    /\ IF Lagging(c)
       THEN /\ next' = [next EXCEPT ![c] = OldestPos]
            /\ write_task' = [write_task EXCEPT ![c] = "lagged"]
            /\ rxAlive' = [rxAlive EXCEPT ![c] = FALSE]
            /\ UNCHANGED out
       ELSE /\ out' = [out EXCEPT ![c] = <<chan[next[c] - OldestPos + 1]>>]
            /\ next' = [next EXCEPT ![c] = AdvanceCursor(@)]
            /\ write_task' = [write_task EXCEPT ![c] = "send"]
            /\ UNCHANGED rxAlive
    /\ UNCHANGED <<cfgFile, cfgChanges, pc, ws_stream, cfg, subPos, chan,
                   sent, delivered, dropped>>
    /\ UNCHANGED <<estVars, accVars>>

\* Writer task, write.send(Message::Text(..)) completes with Ok.
WriterSendOk(c) ==
    /\ write_task[c] = "send"
    /\ ~AbortRequested(c)
    /\ delivered' = [delivered EXCEPT ![c] = Append(@, out[c][1])]
    /\ out' = [out EXCEPT ![c] = <<>>]
    /\ write_task' = [write_task EXCEPT ![c] = "recv"]
    /\ UNCHANGED <<cfgFile, cfgChanges, pc, ws_stream, cfg, next, subPos,
                   rxAlive, chan, sent, dropped>>
    /\ UNCHANGED <<estVars, accVars>>

\* Writer task, write.send(..) completes with Err: break, the task ends.
WriterSendFail(c) ==
    /\ write_task[c] = "send"
    /\ ~AbortRequested(c)
    /\ out' = [out EXCEPT ![c] = <<>>]
    /\ write_task' = [write_task EXCEPT ![c] = "send_failed"]
    /\ rxAlive' = [rxAlive EXCEPT ![c] = FALSE]
    /\ UNCHANGED <<cfgFile, cfgChanges, pc, ws_stream, cfg, next, subPos,
                   chan, sent, delivered, dropped>>
    /\ UNCHANGED <<estVars, accVars>>

\* Variant of WriterCancel: the cancelled task's receiver is leaked.
WriterCancel_KeepsRx(c) ==
    /\ WriterRunning(c)
    /\ AbortRequested(c)
    /\ out' = [out EXCEPT ![c] = <<>>]
    /\ write_task' = [write_task EXCEPT ![c] = "aborted"]
    /\ UNCHANGED <<cfgFile, cfgChanges, pc, ws_stream, cfg, next, subPos,
                   rxAlive, chan, sent, delivered, dropped>>
    /\ UNCHANGED <<estVars, accVars>>
\* The runtime cancels an aborted writer task at its await point and drops
\* its future, rx included.
WriterCancel(c) ==
    /\ WriterRunning(c)
    /\ AbortRequested(c)
    /\ out' = [out EXCEPT ![c] = <<>>]
    /\ write_task' = [write_task EXCEPT ![c] = "aborted"]
    /\ rxAlive' = [rxAlive EXCEPT ![c] = FALSE]
    /\ UNCHANGED <<cfgFile, cfgChanges, pc, ws_stream, cfg, next, subPos,
                   chan, sent, delivered, dropped>>
    /\ UNCHANGED <<estVars, accVars>>

Next ==
    \/ \E v \in Configs \cup {NoConfig} : ConfigChange(v)
    \/ \E c \in Conns : Accept(c)
    \/ \E c \in Conns : HandshakeFail(c)
    \/ \E c \in Conns : HandshakeOk(c)
    \/ \E c \in Conns : ReaderPacket(c)
    \/ \E c \in Conns, k \in InvalidKinds : ReaderDrop(c, k)
    \/ \E c \in Conns : ReaderEnd(c)
    \/ \E c \in Conns : WriterRecv(c)
    \/ \E c \in Conns : WriterSendOk(c)
    \/ \E c \in Conns : WriterSendFail(c)
    \/ \E c \in Conns : WriterCancel(c)

Spec == Init /\ [][Next]_vars

\* The runtime keeps scheduling ready tasks: a writer whose recv has a value
\* is polled and a cancelled task is reaped.  A send to a peer that keeps
\* reading resolves, with Ok or with Err; nothing makes a writer fast, so a
\* writer may still fall behind the readers by any distance.
FairSpec ==
    /\ Spec
    /\ \A c \in Conns : WF_vars(WriterRecv(c))
    /\ \A c \in Conns : WF_vars(WriterSendOk(c) \/ WriterSendFail(c))
    /\ \A c \in Conns : WF_vars(WriterCancel(c))

TypeOK ==
    /\ cfgFile \in Configs \cup {NoConfig}
    /\ cfgChanges \in 0..MaxCfgChanges
    /\ \A c \in Conns :
        /\ pc[c] \in {"idle", "handshake", "active", "panicked", "returned"}
        /\ ws_stream[c] \in {"none", "ok", "failed"}
        /\ write_task[c] \in {"none", "recv", "send", "lagged", "send_failed",
                           "aborted"}
        /\ next[c] \in 0..MaxSend
        /\ Len(out[c]) <= 1

\* ---------------------------------------------------------------- claims

\* ------------------------------------------- specification of time_to_call
\* Longest speed profile a packet carries.
MaxProfileLen == 3

\* No server is running.
ServerIdle == ServerInit /\ cfgFile = NoConfig

\* Inputs.  Configurations as tracks/monaco.json could hold them; packets
\* before, at and past the call point, reversing, standing still and at
\* speed, with every profile of up to MaxProfileLen samples, in any order,
\* at points before the car, inside the span to the call point and past
\* it, some of them with a zero or negative speed.
TimerConfigs ==
    {[pit_entry_m |-> F(1000), call_offset_m |-> F(50), buffer_s |-> b] :
        b \in {F(0), F(3)}}
LapDistances == {F(533), F(700), F(800), F(950), F(960)}
SpeedsKph == {F(-36), F(0), F(180), F(236)}
SpeedSamples ==
    {[x_m |-> x, v_mps |-> v_inst_mps(k)] :
        x \in {F(800), F(950)}, k \in {F(180), F(236)}}
    \cup {[x_m |-> F(900), v_mps |-> v] : v \in {v_inst_mps(F(180)), Zero}}
    \cup {[x_m |-> F(700), v_mps |-> F(-5)],
          [x_m |-> F(990), v_mps |-> v_inst_mps(F(180))]}
Profiles ==
    UNION {[1..n -> SpeedSamples] : n \in 0..MaxProfileLen}
TelemetryPackets ==
    {[lap_distance_m |-> x, speed_kph |-> k, speed_profile |-> p] :
        x \in LapDistances, k \in SpeedsKph,
        p \in {None} \cup {Some(q) : q \in Profiles}}

EstInit ==
    /\ ServerIdle
    /\ AccumulatorIdle
    /\ pkt \in {Some(d) : d \in TelemetryPackets}
    /\ timer_cfg \in {Some(c) : c \in TimerConfigs}
    /\ result = None

\* main.rs:95, let (t_call, t_safe, status) = time_to_call(&pkt, &cfg).
TimeToCall ==
    /\ result = None
    /\ result' = Some(time_to_call(pkt[1], timer_cfg[1]))
    /\ UNCHANGED <<pkt, timer_cfg, serverVars, accVars>>

EstNext == TimeToCall

EstSpec == EstInit /\ [][EstNext]_vars

\* Reader c consumes an inbound message in this step: it drops one, or it
\* broadcasts the result of one.
ReaderConsumes(c) ==
    \/ dropped'[c] # dropped[c]
    \/ /\ Len(sent') > Len(sent)
       /\ sent'[Len(sent')].src = c

\* Writer c has delivered the result at position i as the item that position
\* has in the stream it subscribed to: nothing before it skipped or reordered.
DeliveredInOrder(c, i) ==
    /\ i < TailPos
    /\ i - subPos[c] + 1 \in 1..Len(delivered[c])
    /\ delivered[c][i - subPos[c] + 1] = [pos |-> i, val |-> sent[i + 1]]

\* C1: once a connection's writer loop has terminated because delivery to
\* the peer failed, its reader loop consumes no further inbound message
\* (neither drops one nor broadcasts a result).
C1_WriterFailureStopsReader ==
    [][\A c \in Conns : write_task[c] = "send_failed" => ~ReaderConsumes(c)]_vars

\* C2: a writer that receives while its cursor is more than the channel
\* capacity behind skips to the oldest retained result, stays subscribed and
\* stays in its delivery loop.
C2_LaggedWriterKeepsDelivering ==
    [][\A c \in Conns :
        (WriterRunning(c) /\ Lagging(c) /\ next'[c] # next[c])
            => (WriterRunning(c)' /\ rxAlive'[c] /\ next'[c] = OldestPos)]_vars

\* C3: broadcasting never waits for a consumer: an Active reader can always
\* take its broadcast step, however far the subscribed receivers are behind,
\* and the channel never retains more than its capacity for any receiver.
C3_BroadcastNeverWaits ==
    /\ \A c \in Conns :
        (Active(c) /\ Len(sent) < MaxSend) => ENABLED ReaderPacket(c)
    /\ Len(chan) <= ChannelCapacity
    /\ \A c \in Conns : rxAlive[c] => Retained(c) <= ChannelCapacity

\* A receiver that never read is more than the capacity behind, and the
\* channel is full.
C3_Witness ==
    \E c \in Conns :
        /\ rxAlive[c]
        /\ TailPos - next[c] > ChannelCapacity
        /\ Len(chan) = ChannelCapacity

\* C4: every result broadcast at or after a connection's subscription is
\* eventually delivered to it, as the next item in broadcast order, unless
\* the connection stops being Active or its writer stops (delivery failure,
\* lag beyond the capacity, cancellation); what other connections do never
\* prevents it.
C4_FanOut ==
    \A c \in Conns : \A i \in 0..(MaxSend - 1) :
        (Active(c) /\ WriterRunning(c) /\ subPos[c] <= i /\ i < TailPos)
            ~> (DeliveredInOrder(c, i) \/ ~(Active(c) /\ WriterRunning(c)))

\* A consumer has been delivered two results in order while another
\* connection's writer has failed or its connection has closed.
C4_Witness ==
    \E c, d \in Conns :
        /\ c # d
        /\ Active(c) /\ WriterRunning(c)
        /\ Len(delivered[c]) >= 2
        /\ DeliveredInOrder(c, subPos[c] + 1)
        /\ ws_stream[d] = "ok"
        /\ (Closed(d) \/ write_task[d] = "send_failed")

\* C5: after a connection's reader loop has ended, its writer delivers
\* nothing more and eventually stops.
C5_ReaderEndCancelsWriter ==
    /\ \A c \in Conns :
        (pc[c] = "returned" /\ ws_stream[c] = "ok") ~> (Closed(c) /\ ~WriterRunning(c))
    /\ [][\A c \in Conns :
            (pc[c] = "returned" /\ ws_stream[c] = "ok")
                => delivered'[c] = delivered[c]]_vars

\* A reader ended while results were still pending for its write_task, and the
\* writer was cancelled without delivering them.
C5_Witness ==
    \E c \in Conns :
        /\ pc[c] = "returned"
        /\ write_task[c] = "aborted"
        /\ next[c] < TailPos

\* C6: what a writer delivers is a subsequence of the broadcast sequence:
\* each delivered item is the result broadcast at its position, positions
\* strictly increase (no reordering, no duplicate), and none precedes the
\* connection's subscription.
C6_DeliveryOrder ==
    \A c \in Conns : \A k \in 1..Len(delivered[c]) :
        /\ delivered[c][k].pos >= subPos[c]
        /\ delivered[c][k].pos < TailPos
        /\ delivered[c][k].val = sent[delivered[c][k].pos + 1]
        /\ k > 1 => delivered[c][k - 1].pos < delivered[c][k].pos

\* A connection accepted after the first broadcast has been delivered two
\* results that came from different sources.
C6_Witness ==
    \E c \in Conns :
        /\ subPos[c] > 0
        /\ Len(delivered[c]) >= 2
        /\ delivered[c][1].val.src # delivered[c][2].val.src

\* C7: while the configuration has been unloadable since startup, no
\* connection is accepted, no handshake completes and nothing is broadcast.
C7_UnloadableConfigIsFatal ==
    (cfgChanges = 0 /\ cfgFile = NoConfig)
        => /\ \A c \in Conns : pc[c] = "idle" /\ ws_stream[c] = "none"
           /\ sent = <<>>

\* C8: every result ever broadcast was computed from the same TimerConfig.
C8_SingleConfigForAllResults ==
    \A i, j \in 1..Len(sent) : sent[i].cfg = sent[j].cfg

\* C9: a step in which a reader drops an inbound message broadcasts
\* nothing, delivers nothing, and leaves every connection's state, writer
\* and subscription as they were; afterwards the reader can still process a
\* valid packet.
C9_InvalidMessageDropped ==
    /\ [][\A c \in Conns :
            dropped'[c] # dropped[c]
                => UNCHANGED <<pc, ws_stream, cfg, write_task, out, next,
                               rxAlive, chan, sent, delivered>>]_vars
    /\ [](\A c \in Conns :
            (Active(c) /\ dropped[c] > 0 /\ Len(sent) < MaxSend)
                => ENABLED ReaderPacket(c))

\* A reader dropped a message, went on to broadcast a result, and its own
\* writer delivered that result.
C9_Witness ==
    \E c \in Conns :
        /\ dropped[c] > 0
        /\ Active(c) /\ WriterRunning(c)
        /\ dropped[c] = MaxDropped
        /\ \E k \in 1..Len(delivered[c]) : delivered[c][k].val.src = c

\* C10: a connection whose handshake failed is Closed, never loaded a
\* configuration, never had a write_task, delivered nothing and broadcast
\* nothing; the failing step takes it from Connecting to Closed and leaves
\* the channel and every other connection untouched.
C10_HandshakeFailureClosesDirectly ==
    /\ [](\A c \in Conns :
            ws_stream[c] = "failed"
                => /\ Closed(c)
                   /\ cfg[c] = NoConfig
                   /\ write_task[c] = "none"
                   /\ ~rxAlive[c]
                   /\ delivered[c] = <<>>
                   /\ \A i \in 1..Len(sent) : sent[i].src # c)
    /\ [][\A c \in Conns :
            (ws_stream'[c] = "failed" /\ ws_stream[c] # "failed")
                => /\ Connecting(c)
                   /\ UNCHANGED <<chan, sent, delivered, out, next,
                                  write_task, cfg>>
                   /\ \A d \in Conns \ {c} :
                        pc'[d] = pc[d] /\ rxAlive'[d] = rxAlive[d]]_vars

\* A handshake failed while another connection was Active and had already
\* broadcast, and that connection is still Active with its writer running.
C10_Witness ==
    \E c, d \in Conns :
        /\ ws_stream[c] = "failed"
        /\ Active(d) /\ WriterRunning(d)
        /\ subPos[c] > 0
        /\ Len(delivered[d]) > 0

\* C11 as stated: a Closed connection holds no subscription and no result
\* in flight.
C11_ClosedHoldsNoSubscription ==
    \A c \in Conns : Closed(c) => (~rxAlive[c] /\ out[c] = <<>>)

\* C11 as amended: a Closed connection whose writer task is no longer
\* running holds no subscription and no result in flight, on every exit
\* path; and every Closed connection eventually holds none, because the
\* writer task aborted at the reader's end is reaped.
C11_ClosedReleasesSubscription ==
    /\ [](\A c \in Conns :
            (Closed(c) /\ ~WriterRunning(c)) => (~rxAlive[c] /\ out[c] = <<>>))
    /\ \A c \in Conns : Closed(c) ~> (~rxAlive[c] /\ out[c] = <<>>)

\* All four exit paths have been taken or are open: one connection closed
\* by its reader's end with the writer cancelled while sending, another
\* closed by a failed handshake, a failed load, or after a delivery failure.
C11_Witness ==
    \E c, d \in Conns :
        /\ c # d
        /\ pc[c] = "returned" /\ write_task[c] = "aborted" /\ ~rxAlive[c]
        /\ Closed(d) /\ ~rxAlive[d]
        /\ \/ ws_stream[d] = "failed"
           \/ pc[d] = "panicked"
           \/ write_task[d] = "send_failed"

\* --------------------------------- specification of SpeedProfileCalculator
\* Largest window_size a calculator is constructed with.
MaxWindowSize == 3
\* Number of samples added between construction or a reset and the next.
MaxAdds == 4

\* Telemetry fed to add_sample as (lap_distance_m, speed_kph): behind,
\* inside and beyond the queried ranges, in any order, standing and moving.
Telemetry ==
    {<<F(-100), F(180)>>, <<F(950), F(0)>>, <<F(1000), F(180)>>,
     <<F(1150), F(180)>>, <<F(1160), F(236)>>}
\* Arguments of get_profile and of get_lookahead_profile.
Ranges == {<<F(1000), F(1100)>>, <<F(1000), F(1000)>>}
Positions == {F(1000), F(-100)}

\* SpeedProfileCalculator::new(window_size, lookahead_m).
AccInit ==
    /\ ServerIdle
    /\ EstimatorIdle
    /\ window_size \in 0..MaxWindowSize
    /\ lookahead_m \in {F(100), F(200)}
    /\ window = <<>>
    /\ added = <<>>
    /\ returned = None
    /\ call = <<"new">>
    /\ calcs = <<>>

AddSample(x, kph) ==
    /\ Len(added) < MaxAdds
    /\ window' = add_sample(window, window_size, x, kph)
    /\ added' = Append(added, [x_m |-> x, v_mps |-> FDiv(kph, KphPerMps)])
    /\ returned' = None
    /\ call' = <<"add_sample", x, kph>>
    /\ UNCHANGED <<window_size, lookahead_m, calcs, serverVars, estVars>>

GetProfile(cur, tgt) ==
    /\ returned' = Some([min_x |-> FSub(cur, BUFFER_M),
                         max_x |-> FAdd(tgt, BUFFER_M),
                         value |-> get_profile(window, cur, tgt)])
    /\ call' = <<"get_profile", cur, tgt>>
    /\ UNCHANGED <<window_size, lookahead_m, window, added, calcs,
                   serverVars, estVars>>

GetLookaheadProfile(cur) ==
    /\ returned' = Some([min_x |-> FSub(cur, BUFFER_M),
                         max_x |-> FAdd(FAdd(cur, lookahead_m), BUFFER_M),
                         value |-> get_lookahead_profile(window, lookahead_m,
                                                         cur)])
    /\ call' = <<"get_lookahead_profile", cur>>
    /\ UNCHANGED <<window_size, lookahead_m, window, added, calcs,
                   serverVars, estVars>>

Reset ==
    /\ window' = reset(window)
    /\ added' = <<>>
    /\ returned' = None
    /\ call' = <<"reset">>
    /\ UNCHANGED <<window_size, lookahead_m, calcs, serverVars, estVars>>

AccNext ==
    \/ \E t \in Telemetry : AddSample(t[1], t[2])
    \/ \E r \in Ranges : GetProfile(r[1], r[2])
    \/ \E x \in Positions : GetLookaheadProfile(x)
    \/ Reset

AccSpec == AccInit /\ [][AccNext]_vars

\* ------------------------ specification of calculators owned side by side
\* Number of calculators alive at once, each moved into a thread of its own
\* (integration_tests.rs, test_concurrent_safety).
MaxCalcs == 2
Calcs == 1..MaxCalcs

\* What owner i feeds to its calculator: positions on its own stretch of
\* track, at 100 kph.
OwnTelemetry(i) == {<<F(100 * i), F(100)>>, <<F(100 * i + 10), F(100)>>}
\* Where owner i asks for a profile.
OwnPosition(i) == F(100 * i)

\* let mut calc = SpeedProfileCalculator::new(window_size, 200.0) in every
\* thread; the calculators differ in size.
PoolInit ==
    /\ ServerIdle
    /\ EstimatorIdle
    /\ window_size = 0
    /\ lookahead_m = Zero
    /\ window = <<>>
    /\ added = <<>>
    /\ returned = None
    /\ call = <<"new">>
    /\ calcs = [i \in Calcs |-> [window_size |-> i + 1,
                                 lookahead_m |-> F(200),
                                 window |-> <<>>]]

\* Variant of CalcAddSample: one window behind all calculators.
CalcAddSample_Shared(i, x, kph) ==
    /\ calcs' = [j \in Calcs |->
                    [calcs[j] EXCEPT
                        !.window = add_sample(@, calcs[j].window_size, x, kph)]]
    /\ returned' = None
    /\ call' = <<"add_sample", i, x, kph>>
    /\ UNCHANGED <<window_size, lookahead_m, window, added, serverVars,
                   estVars>>

\* calc.add_sample(x, kph) on calculator i (&mut self).
CalcAddSample(i, x, kph) ==
    /\ calcs' = [calcs EXCEPT
                    ![i].window = add_sample(@, calcs[i].window_size, x, kph)]
    /\ returned' = None
    /\ call' = <<"add_sample", i, x, kph>>
    /\ UNCHANGED <<window_size, lookahead_m, window, added, serverVars,
                   estVars>>

\* calc.get_profile(cur, tgt) on calculator i (&self).
CalcGetProfile(i, cur, tgt) ==
    /\ returned' = Some(get_profile(calcs[i].window, cur, tgt))
    /\ call' = <<"get_profile", i, cur, tgt>>
    /\ UNCHANGED <<calcs, window_size, lookahead_m, window, added,
                   serverVars, estVars>>

\* calc.get_lookahead_profile(cur) on calculator i (&self).
CalcGetLookaheadProfile(i, cur) ==
    /\ returned' = Some(get_lookahead_profile(calcs[i].window,
                                              calcs[i].lookahead_m, cur))
    /\ call' = <<"get_lookahead_profile", i, cur>>
    /\ UNCHANGED <<calcs, window_size, lookahead_m, window, added,
                   serverVars, estVars>>

\* calc.window_len() on calculator i (&self).
CalcWindowLen(i) ==
    /\ returned' = Some(window_len(calcs[i].window))
    /\ call' = <<"window_len", i>>
    /\ UNCHANGED <<calcs, window_size, lookahead_m, window, added,
                   serverVars, estVars>>

\* calc.reset() on calculator i (&mut self).
CalcReset(i) ==
    /\ calcs' = [calcs EXCEPT ![i].window = reset(@)]
    /\ returned' = None
    /\ call' = <<"reset", i>>
    /\ UNCHANGED <<window_size, lookahead_m, window, added, serverVars,
                   estVars>>

\* The threads run in any interleaving.
PoolNext ==
    \E i \in Calcs :
        \/ \E t \in OwnTelemetry(i) : CalcAddSample(i, t[1], t[2])
        \/ CalcGetProfile(i, OwnPosition(i), FAdd(OwnPosition(i), F(10)))
        \/ CalcGetLookaheadProfile(i, OwnPosition(i))
        \/ CalcWindowLen(i)
        \/ CalcReset(i)

PoolSpec == PoolInit /\ [][PoolNext]_vars

\* ------------------------------------------------ claims on time_to_call
\* The packet and configuration evaluated, and what time_to_call returned.
Called == result # None
Scenario(lap, kph, profile, buffer) ==
    /\ pkt = Some([lap_distance_m |-> F(lap), speed_kph |-> F(kph),
                   speed_profile |-> profile])
    /\ timer_cfg = Some([pit_entry_m |-> F(1000), call_offset_m |-> F(50),
                         buffer_s |-> F(buffer)])

\* C12: the status is one of the four values and is fixed by t_safe alone:
\* t_safe < 0 LOCKED_OUT, 0 <= t_safe < 2 RED, 2 <= t_safe < 5 AMBER,
\* t_safe >= 5 GREEN, so 0, 2 and 5 land in the higher band.
C12_StatusBands ==
    Called =>
        LET ts == result[1].t_safe
            st == result[1].status
        IN  /\ st \in {"LOCKED_OUT", "RED", "AMBER", "GREEN"}
            /\ (st = "LOCKED_OUT") <=> FLt(ts, Zero)
            /\ (st = "RED") <=> (FLe(Zero, ts) /\ FLt(ts, F(2)))
            /\ (st = "AMBER") <=> (FLe(F(2), ts) /\ FLt(ts, F(5)))
            /\ (st = "GREEN") <=> FLe(F(5), ts)

\* A result whose t_safe is exactly 2.
C12_Witness ==
    Called /\ result[1].t_safe = F(2) /\ result[1].status = "AMBER"

\* C13 as stated: 150 m from the call point at 180 kph with a 3 s buffer
\* and no profile gives t_call = 3.0, t_safe = 0.0 and status AMBER.
C13_ScenarioIsAmber ==
    (Called /\ Scenario(800, 180, None, 3)) =>
        /\ result[1].t_call = F(3)
        /\ result[1].t_safe = Zero
        /\ result[1].status = "AMBER"

\* C13 as amended: the same packet and configuration give t_call = 3.0,
\* t_safe = 0.0 and status RED.
C13_ScenarioIsRed ==
    (Called /\ Scenario(800, 180, None, 3)) =>
        /\ result[1].t_call = F(3)
        /\ result[1].t_safe = Zero
        /\ result[1].status = "RED"

C13_Witness == Called /\ Scenario(800, 180, None, 3)

\* C14: with or without a profile, the returned t_safe is the returned
\* t_call minus the configured buffer_s.
C14_SafeIsCallMinusBuffer ==
    Called => result[1].t_safe = FSub(result[1].t_call, timer_cfg[1].buffer_s)

\* A result integrated over a profile, with a buffer that matters.
C14_Witness ==
    /\ Called
    /\ pkt[1].speed_profile # None
    /\ timer_cfg[1].buffer_s = F(3)
    /\ FLt(Zero, result[1].t_call)
    /\ result[1].t_call #
           FDiv(d_rem(pkt[1].lap_distance_m, call_at_m(timer_cfg[1])),
                v_inst_mps(pkt[1].speed_kph))

\* C15: at or past the call point d_rem is 0 and t_call is 0, with no
\* profile and with any profile, and t_safe is -buffer_s; at 960 m with
\* the 3 s buffer the result is 0, -3, LOCKED_OUT.
C15_PastCallPoint ==
    (Called /\ FLe(call_at_m(timer_cfg[1]), pkt[1].lap_distance_m)) =>
        /\ d_rem(pkt[1].lap_distance_m, call_at_m(timer_cfg[1])) = Zero
        /\ result[1].t_call = Zero
        /\ result[1].t_safe = FNeg(timer_cfg[1].buffer_s)
        /\ (pkt[1].lap_distance_m = F(960) /\ timer_cfg[1].buffer_s = F(3)) =>
               /\ result[1].t_safe = F(-3)
               /\ result[1].status = "LOCKED_OUT"

\* Past the call point with a profile whose samples lie in front of the car.
C15_Witness ==
    /\ Called
    /\ pkt[1].lap_distance_m = F(960)
    /\ pkt[1].speed_profile # None
    /\ pkt[1].speed_profile[1] # <<>>
    /\ timer_cfg[1].buffer_s = F(3)
    /\ result[1].status = "LOCKED_OUT"

\* Two numbers agree within floating-point tolerance: they differ by at
\* most 2^(3 - MantissaBits) of the larger one, eight units of roundoff.
Close(a, b) ==
    \/ a = b
    \/ /\ a[1] # 0 /\ b[1] # 0
       /\ Abs(a[2] - b[2]) <= 1
       /\ LET e == IF a[2] < b[2] THEN a[2] ELSE b[2]
              ma == a[1] * Pow2(a[2] - e)
              mb == b[1] * Pow2(b[2] - e)
              larger == IF Abs(ma) < Abs(mb) THEN Abs(mb) ELSE Abs(ma)
          IN  Abs(ma - mb) * Pow2(MantissaBits - 3) <= larger

\* The span to the call point and the fallback estimate over it.
Span == FSub(call_at_m(timer_cfg[1]), pkt[1].lap_distance_m)
Fallback ==
    FDiv(d_rem(pkt[1].lap_distance_m, call_at_m(timer_cfg[1])),
         v_inst_mps(pkt[1].speed_kph))

\* The packet is short of the call point and carries a profile of n >= 2
\* samples, all inside the span and all with one speed v >= 0.1.
ConstantSpeedProfile ==
    /\ pkt[1].speed_profile # None
    /\ FLt(pkt[1].lap_distance_m, call_at_m(timer_cfg[1]))
    /\ LET q == pkt[1].speed_profile[1]
       IN  /\ Len(q) >= 2
           /\ \A i \in 1..Len(q) :
                  /\ q[i].v_mps = q[1].v_mps
                  /\ FLe(pkt[1].lap_distance_m, q[i].x_m)
                  /\ FLe(q[i].x_m, call_at_m(timer_cfg[1]))
           /\ FLe(MinSpeed, q[1].v_mps)

\* The profile's first sample lies at the car and its last at the call point.
EndsSampled ==
    LET q == pkt[1].speed_profile[1]
    IN  /\ q[1].x_m = pkt[1].lap_distance_m
        /\ q[Len(q)].x_m = call_at_m(timer_cfg[1])

\* C16 as stated: a constant-speed profile inside the span gives
\* t_call = L / v whatever the packet's speed_kph.
C16_ConstantSpeedGivesSpanOverSpeed ==
    (Called /\ ConstantSpeedProfile) =>
        result[1].t_call = FDiv(Span, pkt[1].speed_profile[1][1].v_mps)

\* C16 as amended: a constant-speed profile inside the span gives t_call
\* within floating-point tolerance of L / v when its first sample lies at
\* lap_distance_m and its last at call_at_m, whatever speed_kph is, or when
\* speed_kph / 3.6 is v itself.
C16_ConstantSpeedWithEndsSampled ==
    (Called /\ ConstantSpeedProfile
        /\ (EndsSampled
            \/ v_inst_mps(pkt[1].speed_kph) = pkt[1].speed_profile[1][1].v_mps))
    => Close(result[1].t_call,
             FDiv(Span, pkt[1].speed_profile[1][1].v_mps))

\* Three samples at one speed, from the car to the call point, in a packet
\* whose own speed is another.
C16_Witness ==
    /\ Called /\ ConstantSpeedProfile /\ EndsSampled
    /\ Len(pkt[1].speed_profile[1]) = 3
    /\ pkt[1].speed_profile[1][2].x_m = F(900)
    /\ v_inst_mps(pkt[1].speed_kph) # pkt[1].speed_profile[1][1].v_mps

\* The profile is one sample at the car and one at the call point, both at
\* the packet's own speed, which is at least 0.1 m/s.
TwoPointProfileAtOwnSpeed ==
    /\ pkt[1].speed_profile # None
    /\ FLe(MinSpeed, FDiv(pkt[1].speed_kph, KphPerMps))
    /\ LET own(x) == [x_m |-> x, v_mps |-> FDiv(pkt[1].speed_kph, KphPerMps)]
           atCar == own(pkt[1].lap_distance_m)
           atCall == own(call_at_m(timer_cfg[1]))
       IN  pkt[1].speed_profile[1] \in {<<atCar, atCall>>, <<atCall, atCar>>}

\* C17 as stated: over such a profile the integrated t_call equals the
\* fallback d_rem / v_inst exactly.
C17_TwoPointEqualsFallback ==
    (Called /\ TwoPointProfileAtOwnSpeed) => result[1].t_call = Fallback

\* C17 as amended: over such a profile the integrated t_call agrees with
\* the fallback d_rem / v_inst within floating-point tolerance, and for
\* the profile [(800,50),(950,50)] at 800 m and 180 kph both are 3.0.
C17_TwoPointCloseToFallback ==
    (Called /\ TwoPointProfileAtOwnSpeed) =>
        /\ Close(result[1].t_call, Fallback)
        /\ (pkt[1].lap_distance_m = F(800) /\ pkt[1].speed_kph = F(180)) =>
               (result[1].t_call = F(3) /\ Fallback = F(3))

\* The two estimates have been computed and differ in the last place.
C17_Witness ==
    /\ Called /\ TwoPointProfileAtOwnSpeed
    /\ pkt[1].lap_distance_m = F(800)
    /\ pkt[1].speed_kph = F(236)
    /\ result[1].t_call # Fallback

\* ------------------------------------ claims on SpeedProfileCalculator
Min(a, b) == IF a < b THEN a ELSE b

\* The n most recently added samples, oldest first.
MostRecent(n) == SubSeq(added, Len(added) - n + 1, Len(added))

\* Number of window entries inside the range the last query asked for.
InBandCount ==
    Cardinality({i \in 1..Len(window) :
                    /\ FLe(returned[1].min_x, window[i].x_m)
                    /\ FLe(window[i].x_m, returned[1].max_x)})

\* C18: with a positive window_size, whatever calls were made, window_len
\* is at most window_size, and after n add_sample calls it is
\* min(n, window_size).
C18_WindowBounded ==
    window_size > 0 =>
        /\ window_len(window) <= window_size
        /\ window_len(window) = Min(Len(added), window_size)

\* More samples were added than the window takes, and a query was made.
C18_Witness ==
    /\ window_size = 2
    /\ Len(added) = MaxAdds
    /\ window_len(window) = 2
    /\ returned # None

C20_ProfileHasTwoSamples ==
    returned # None =>
        /\ (returned[1].value = None) <=> (InBandCount < 2)
        /\ returned[1].value # None => Len(returned[1].value[1]) >= 2

\* The window holds two entries or more, one of them inside the range.
C20_Witness ==
    /\ returned # None
    /\ Len(window) >= 2
    /\ InBandCount = 1
    /\ returned[1].value = None

\* How often a sample occurs in a sequence.
Count(s, e) == Cardinality({i \in 1..Len(s) : s[i] = e})
Entries(s) == {s[i] : i \in 1..Len(s)}

\* C21: a sequence returned by get_profile(current, target) contains
\* exactly the window entries with current - 50 <= x_m <= target + 50,
\* each once and with its stored speed, ordered by x_m ascending, strictly
\* so when the qualifying entries have pairwise distinct distances.
C21_ProfileIsBandSorted ==
    (call[1] = "get_profile" /\ returned[1].value # None) =>
        LET profile == returned[1].value[1]
            lo == FSub(call[2], F(50))
            hi == FAdd(call[3], F(50))
            InBand(e) == FLe(lo, e.x_m) /\ FLe(e.x_m, hi)
            qualifying == {i \in 1..Len(window) : InBand(window[i])}
        IN  /\ \A e \in Entries(window) \cup Entries(profile) :
                   Count(profile, e) = IF InBand(e) THEN Count(window, e) ELSE 0
            /\ \A i \in 1..(Len(profile) - 1) :
                   FLe(profile[i].x_m, profile[i + 1].x_m)
            /\ (\A i, j \in qualifying :
                   i # j => window[i].x_m # window[j].x_m)
               => \A i \in 1..(Len(profile) - 1) :
                      FLt(profile[i].x_m, profile[i + 1].x_m)

\* A profile that leaves a window entry out and reorders the others.
C21_Witness ==
    /\ call[1] = "get_profile"
    /\ returned[1].value # None
    /\ Len(window) = 3
    /\ Len(returned[1].value[1]) = 2
    /\ \E i, j \in 1..3 :
           /\ i < j
           /\ returned[1].value[1] = <<window[j], window[i]>>
           /\ FLt(window[j].x_m, window[i].x_m)

\* C22: get_lookahead_profile(current) returns what
\* get_profile(current, current + lookahead_m) returns, none or the same
\* sequence, for the lookahead_m given to new.
C22_LookaheadIsGetProfile ==
    call[1] = "get_lookahead_profile" =>
        returned[1].value =
            get_profile(window, call[2], FAdd(call[2], lookahead_m))

\* A lookahead profile that reaches an entry beyond current + 50.
C22_Witness ==
    /\ call[1] = "get_lookahead_profile"
    /\ returned[1].value # None
    /\ \E i \in 1..Len(returned[1].value[1]) :
           FLt(FAdd(call[2], F(50)), returned[1].value[1][i].x_m)

\* C23: reset empties the window from any state; right after it
\* window_len is 0 and both queries return none for every argument, and
\* the calculator is in the state new() leaves it in for the same
\* window_size and lookahead_m, so that a later profile only holds samples
\* added after the reset.
C23_ResetEmptiesWindow ==
    /\ [][call' = <<"reset">> =>
            /\ window_len(window') = 0
            /\ \A r \in Ranges : get_profile(window', r[1], r[2]) = None
            /\ \A x \in Positions :
                   get_lookahead_profile(window', lookahead_m', x) = None
            /\ window_size' = window_size
            /\ lookahead_m' = lookahead_m
            /\ window' = <<>>]_vars
    /\ [](returned # None /\ returned[1].value # None =>
             Entries(returned[1].value[1]) \subseteq Entries(added))
    /\ [](Entries(window) \subseteq Entries(added))

\* A reset has just been made.
C23_Witness ==
    /\ call = <<"reset">>
    /\ window_size = 2
    /\ window_len(window) = 0
    /\ added = <<>>

\* ------------------------------------------- claims on the reader's step
\* C25: a parsed packet received by an Active reader yields exactly one
\* broadcast result, carrying the packet's lap_distance_m and speed_kph and
\* the estimator's t_call, t_safe and status for that packet; the result is
\* offered to every writer subscribed at that moment, the writer of the
\* producing connection included.
C25_PacketYieldsOneResult ==
    [][/\ result' # result => Len(sent') = Len(sent) + 1
       /\ \A c \in Conns :
            (Len(sent') > Len(sent) /\ sent'[Len(sent')].src = c) =>
                LET d == pkt'[1]
                    o == sent'[Len(sent')]
                    r == time_to_call(d, LoadedConfig(cfg[c]))
                IN  /\ Active(c)
                    /\ d \in PeerPackets(c, Len(sent))
                    /\ sent' = Append(sent, o)
                    /\ o.lap_distance_m = d.lap_distance_m
                    /\ o.speed_kph = d.speed_kph
                    /\ o.t_call = r.t_call
                    /\ o.t_safe = r.t_safe
                    /\ o.status = r.status
                    /\ result' = Some(r)
                    /\ \A w \in Conns :
                           rxAlive[w] =>
                               \E i \in 1..Len(chan') :
                                   /\ chan'[i] = [pos |-> Len(sent), val |-> o]
                                   /\ chan'[i].pos >= next[w]]_vars

\* A result built from a packet with a profile has been delivered by the
\* writer of the connection that produced it and by another writer.
C25_Witness ==
    \E c, w \in Conns :
        /\ c # w
        /\ \E i \in 1..Len(delivered[c]), j \in 1..Len(delivered[w]) :
               /\ delivered[c][i].val.src = c
               /\ delivered[w][j] = delivered[c][i]
               /\ delivered[c][i].val.lap_distance_m = F(800)
               /\ delivered[c][i].val.status # "LOCKED_OUT"
               /\ delivered[c][i].pos % 2 = 1

\* The samples of the packet's profile that lie between the car and the
\* call point, in the order of the profile.
Inside ==
    LET between(sm) == /\ FLe(pkt[1].lap_distance_m, sm.x_m)
                       /\ FLe(sm.x_m, call_at_m(timer_cfg[1]))
    IN  SelectSeq(pkt[1].speed_profile[1], between)
ShortOfCallPoint == FLt(pkt[1].lap_distance_m, call_at_m(timer_cfg[1]))

\* C24: short of the call point, a packet whose profile is absent, empty or
\* has no sample between the car and the call point gets t_call = d_rem /
\* v_inst, as the same packet without a profile does; and the samples outside
\* that span never change t_call.
C24_FallbackWithoutUsableProfile ==
    (Called /\ ShortOfCallPoint) =>
        LET d == pkt[1]
            bare == time_to_call([d EXCEPT !.speed_profile = None], timer_cfg[1])
        IN  /\ (d.speed_profile = None \/ Inside = <<>>) =>
                   /\ result[1].t_call = Fallback
                   /\ result[1] = bare
            /\ d.speed_profile # None =>
                   result[1] = time_to_call(
                       [d EXCEPT !.speed_profile = Some(Inside)], timer_cfg[1])

\* 150 m short of the call point at 180 kph, with a profile of two samples
\* that are both past the call point: t_call is 150 / 50.
C24_Witness ==
    /\ Called
    /\ pkt[1].lap_distance_m = F(800)
    /\ pkt[1].speed_kph = F(180)
    /\ pkt[1].speed_profile # None
    /\ Len(pkt[1].speed_profile[1]) = 2
    /\ \A i \in 1..2 : pkt[1].speed_profile[1][i].x_m = F(990)
    /\ result[1].t_call = F(3)

\* The points of the packet's profile with their guards, sorted by x, before
\* the duplicates are removed.
SortedPts ==
    LET pts == InRangePts(pkt[1].speed_profile[1], pkt[1].lap_distance_m,
                          call_at_m(timer_cfg[1]))
        fb == v_inst_mps(pkt[1].speed_kph)
    IN  SortByX(StartGuard(pts, pkt[1].lap_distance_m, fb)
                \o pts
                \o EndGuard(pts, call_at_m(timer_cfg[1]), fb))
Integrates ==
    /\ Called /\ ShortOfCallPoint
    /\ pkt[1].speed_profile # None
    /\ Inside # <<>>

\* The last point of every run of equal x.
RECURSIVE LastOfEachX(_)
LastOfEachX(s) ==
    IF Len(s) < 2 THEN s
    ELSE LET r == LastOfEachX(Tail(s))
         IN  IF X(s[1]) = X(r[1]) THEN r ELSE <<s[1]>> \o r

\* C26: of several points with the same x_m, duplicate samples or a guard
\* coinciding with a sample, the last one is kept, so t_call is the integral
\* over the last point of every x_m.
C26_DedupKeepsLast ==
    Integrates => result[1].t_call = SumWindows(LastOfEachX(SortedPts), 1, Zero)

\* The sequence of points the trapezoids are taken over.
Integrated ==
    IntegratedPts(InRangePts(pkt[1].speed_profile[1], pkt[1].lap_distance_m,
                             call_at_m(timer_cfg[1])),
                  pkt[1].lap_distance_m, call_at_m(timer_cfg[1]),
                  v_inst_mps(pkt[1].speed_kph))
RECURSIVE SegmentLengths(_, _)
SegmentLengths(s, i) ==
    IF i >= Len(s) THEN Zero
    ELSE FAdd(FSub(X(s[i + 1]), X(s[i])), SegmentLengths(s, i + 1))
SampledAt(x) == \E i \in 1..Len(Inside) : Inside[i].x_m = x

\* C27: when a profile is integrated, the points start at the car's
\* position, end at the call point and increase strictly in x, so that
\* consecutive segments share their ends and cover the span once, their
\* lengths adding up to d_rem (up to the rounding of the sum); and an end of
\* the span that no sample lies on carries the fallback speed.
C27_PointsCoverSpanOnce ==
    Integrates =>
        LET s == Integrated
            start_x == pkt[1].lap_distance_m
            end_x == call_at_m(timer_cfg[1])
        IN  /\ Len(s) >= 2
            /\ X(s[1]) = start_x
            /\ X(s[Len(s)]) = end_x
            /\ \A i \in 1..(Len(s) - 1) : FLt(X(s[i]), X(s[i + 1]))
            /\ Close(SegmentLengths(s, 1), d_rem(start_x, end_x))
            /\ ~SampledAt(start_x) => V(s[1]) = v_inst_mps(pkt[1].speed_kph)
            /\ ~SampledAt(end_x) => V(s[Len(s)]) = v_inst_mps(pkt[1].speed_kph)
            /\ result[1].t_call = SumWindows(s, 1, Zero)

\* One sample in the middle of the span, at a speed other than the car's:
\* both guards are inserted.
C27_Witness ==
    /\ Called
    /\ pkt[1].lap_distance_m = F(800)
    /\ pkt[1].speed_kph = F(236)
    /\ pkt[1].speed_profile =
           Some(<<[x_m |-> F(900), v_mps |-> v_inst_mps(F(180))]>>)
    /\ Len(Integrated) = 3
    /\ V(Integrated[1]) = v_inst_mps(F(236))
    /\ V(Integrated[3]) = v_inst_mps(F(236))

\* The points with every speed raised to 0.1 m/s.
Floored(s) == [i \in 1..Len(s) |-> <<X(s[i]), FMax(V(s[i]), Dec(1, 10))>>]

\* C28: short of the call point and without a usable profile, a packet whose
\* speed_kph / 3.6 is at most 0.1, zero and negative speeds included, gets
\* t_call = d_rem / 0.1; and a profile is integrated as if every speed below
\* 0.1 m/s were 0.1 m/s, so that each segment contributes a time between 0
\* and its length divided by 0.1.
C28_SpeedFlooredAtTenth ==
    (Called /\ ShortOfCallPoint) =>
        LET d == pkt[1]
            span == d_rem(d.lap_distance_m, call_at_m(timer_cfg[1]))
            s == Integrated
        IN  /\ ( /\ d.speed_profile = None \/ Inside = <<>>
                 /\ FLe(FDiv(d.speed_kph, Dec(36, 10)), Dec(1, 10)) ) =>
                    result[1].t_call = FDiv(span, Dec(1, 10))
            /\ Integrates =>
                   /\ result[1].t_call = SumWindows(Floored(s), 1, Zero)
                   /\ \A i \in 1..(Len(s) - 1) :
                          /\ FLe(Zero, Trapezoid(s[i], s[i + 1]))
                          /\ FLe(Trapezoid(s[i], s[i + 1]),
                                 FMul(FSub(X(s[i + 1]), X(s[i])),
                                      FDiv(F(1), Dec(1, 10))))

\* A car reversing at 36 kph, 150 m short of the call point, with one sample
\* past the call point: t_call is 150 / 0.1.
C28_Witness ==
    /\ Called
    /\ pkt[1].lap_distance_m = F(800)
    /\ pkt[1].speed_kph = F(-36)
    /\ pkt[1].speed_profile # None
    /\ Len(pkt[1].speed_profile[1]) = 1
    /\ Inside = <<>>
    /\ result[1].t_call = F(1500)

\* d_rem / 0.1, the time the span takes at the minimum speed.
SlowestTime ==
    FDiv(d_rem(pkt[1].lap_distance_m, call_at_m(timer_cfg[1])), Dec(1, 10))

\* C29 as stated: for every packet, 0 <= t_call <= d_rem / 0.1 and
\* t_safe >= -buffer_s.
C29_CallTimeBounded ==
    Called =>
        /\ FLe(Zero, result[1].t_call)
        /\ FLe(result[1].t_call, SlowestTime)
        /\ FLe(FNeg(timer_cfg[1].buffer_s), result[1].t_safe)

\* C29 as amended: for every packet, t_call >= 0 and t_safe >= -buffer_s,
\* and t_call is at most d_rem / 0.1 or exceeds it by rounding only.
C29_CallTimeBoundedUpToRounding ==
    Called =>
        /\ FLe(Zero, result[1].t_call)
        /\ \/ FLe(result[1].t_call, SlowestTime)
           \/ Close(result[1].t_call, SlowestTime)
        /\ FLe(FNeg(timer_cfg[1].buffer_s), result[1].t_safe)

\* A car standing 417 m short of the call point with one sample of speed 0
\* at 900 m: the two trapezoids at the minimum speed add up to more than the
\* rounded quotient d_rem / 0.1.
C29_Witness ==
    /\ Called
    /\ pkt[1].lap_distance_m = F(533)
    /\ pkt[1].speed_kph = Zero
    /\ pkt[1].speed_profile = Some(<<[x_m |-> F(900), v_mps |-> Zero]>>)
    /\ FLt(SlowestTime, result[1].t_call)
    /\ Close(result[1].t_call, SlowestTime)

\* The orders in which n samples can be listed.
Orderings(n) ==
    {f \in [1..n -> 1..n] : \A i, j \in 1..n : i # j => f[i] # f[j]}
DistinctPositions(q) ==
    \A i, j \in 1..Len(q) : i # j => q[i].x_m # q[j].x_m

\* C30: for a profile whose samples have pairwise distinct x_m, listing the
\* samples in any other order gives the same (t_call, t_safe, status).
C30_OrderOfSamplesIrrelevant ==
    (Called /\ pkt[1].speed_profile # None
            /\ DistinctPositions(pkt[1].speed_profile[1])) =>
        LET q == pkt[1].speed_profile[1]
        IN  \A f \in Orderings(Len(q)) :
                time_to_call(
                    [pkt[1] EXCEPT !.speed_profile =
                                       Some([i \in 1..Len(q) |-> q[f[i]]])],
                    timer_cfg[1]) = result[1]

\* -------------------------------- claims on calculators owned side by side
\* The calls that take the calculator by shared reference.
Queries == {"get_profile", "get_lookahead_profile", "window_len"}

\* C31: get_profile, get_lookahead_profile and window_len leave the
\* calculator they are called on as it was (window contents and order,
\* window_size, lookahead_m), and no call on one calculator changes another
\* calculator.
C31_QueriesAndOtherInstancesLeaveWindow ==
    [][\A i \in Calcs :
          (Len(call') >= 2 /\ call'[2] = i) =>
              /\ call'[1] \in Queries => calcs'[i] = calcs[i]
              /\ \A j \in Calcs \ {i} : calcs'[j] = calcs[j]]_vars

\* Calculator 1, full of its own two samples, has just returned a lookahead
\* profile while calculator 2 holds three samples of its own.
C31_Witness ==
    /\ Len(call) = 3
    /\ call[1] = "get_lookahead_profile"
    /\ call[2] = 1
    /\ returned # None
    /\ returned[1] # None
    /\ Len(calcs[1].window) = 2
    /\ calcs[1].window[1] # calcs[1].window[2]
    /\ Len(calcs[2].window) = 3
====
